---------------------------- MODULE Spec2Model ----------------------------
(***************************************************************************)
(* Shape-level model of model/gen_disc.py: the ReflectionPadding2D layer,  *)
(* the block builders residual_block / downsample / upsample and the three *)
(* model builders get_resnet_generator, efficientnet_generator and         *)
(* get_discriminator.                                                      *)
(*                                                                         *)
(* A tensor is the record of its static shape (batch, height, width,       *)
(* channels), the layers that produced it (its Keras history) and the      *)
(* exception raised while producing it, if any.  Every Keras layer is an   *)
(* operator from tensors to tensors computing the shape the layer infers.  *)
(* A run of the model is one call of one function of the file, advanced    *)
(* statement group by statement group.                                     *)
(***************************************************************************)
EXTENDS Integers, Sequences, FiniteSets, TLC

VARIABLES
    fn,           \* the function of gen_disc.py being called
    pc,           \* position inside that function
    args,         \* the arguments of the call
    tf,           \* what the installed framework checks at graph construction
    self,         \* the ReflectionPadding2D object (standalone layer call)
    x,            \* the local tensor variable x
    filters,      \* the local filters (generator) / num_filters (discriminator)
    blk,          \* iterations completed of the current loop
    model         \* the model object returned, once returned

vars == <<fn, pc, args, tf, self, x, filters, blk, model>>

-----------------------------------------------------------------------------
(* Bounds of the model. *)

MaxDim == 5
MaxChan == 1
MaxBatch == 1
MaxPad == 2
MaxKernel == 4
MaxStride == 2
MaxFilters == 2
MaxBlocks == 9
MaxResidual == 5
MaxBackbone == 9
MaxNumDownsampling == 4

-----------------------------------------------------------------------------
(* Tensors and the framework's layers. *)

\* The unknown dimension of a symbolic tensor: Input(shape=[256,256,3]) has
\* batch size None.
NoneDim == -1

NoTensor == [err |-> "unset", b |-> NoneDim, h |-> 0, w |-> 0, c |-> 0, hist |-> <<>>]

NoModel == [built |-> FALSE]

NoLayer == [padding |-> <<0, 0>>, trainable_weights |-> <<>>, constructed |-> FALSE]

Tensor(b, h, w, c) == [err |-> "", b |-> b, h |-> h, w |-> w, c |-> c, hist |-> <<>>]

Raise(t, exc) == [t EXCEPT !.err = exc]

Ok(t) == t.err = ""

Shape(t) == <<t.b, t.h, t.w, t.c>>

Max(a, b) == IF a >= b THEN a ELSE b

CeilDiv(a, b) == (a + b - 1) \div b

RECURSIVE Pow2(_)
Pow2(n) == IF n = 0 THEN 1 ELSE 2 * Pow2(n - 1)

\* Python values that may be None: None, or a str.
PyNone == [type |-> "NoneType", value |-> ""]

PyStr(s) == [type |-> "str", value |-> s]

\* a + b for a str b: str + str concatenates, None + str raises TypeError.
PyAdd(a, b) ==
    IF a.type = "str" THEN PyStr(a.value \o b) ELSE [type |-> "TypeError", value |-> ""]

\* tf.keras.layers.Input(shape=[h, w, c], name=name): a symbolic tensor.
Input(h, w, c, name) ==
    [Tensor(NoneDim, h, w, c) EXCEPT
        !.hist = <<[op |-> "InputLayer", filters |-> c, kernel_size |-> <<0, 0>>,
                    strides |-> <<0, 0>>, padding |-> "none", name |-> name]>>]

\* tf.pad(input_tensor, padding_tensor, mode="REFLECT").  The shape grows by the
\* two paddings of each dimension.  REFLECT needs every padding to be at most
\* dim - 1: the kernel checks it on a concrete tensor; on a symbolic tensor it
\* is checked only when the framework's shape inference does (tf.pad_checked).
tf_pad(t, paddings, mode) ==
    LET dims == <<t.b, t.h, t.w, t.c>>
        tooWide == \E d \in 1..4 :
                       /\ dims[d] # NoneDim
                       /\ \/ paddings[d][1] > dims[d] - 1
                          \/ paddings[d][2] > dims[d] - 1
        checked == t.b # NoneDim \/ tf.pad_checked
        grow(d) == IF dims[d] = NoneDim THEN NoneDim
                   ELSE dims[d] + paddings[d][1] + paddings[d][2]
    IN  IF ~Ok(t) THEN t
        ELSE IF mode = "REFLECT" /\ tooWide /\ checked
             THEN Raise(t, "InvalidArgumentError")
        ELSE [t EXCEPT !.b = grow(1), !.h = grow(2), !.w = grow(3), !.c = grow(4)]

\* One spatial dimension of a convolution or pooling window.
ConvDim(n, k, s, padding) ==
    IF padding = "same" THEN CeilDiv(n, s) ELSE ((n - k) \div s) + 1

\* One spatial dimension of a transposed convolution.
DeconvDim(n, k, s, padding) ==
    IF padding = "same" THEN n * s ELSE n * s + Max(k - s, 0)

LayerOf(op, f, k, s, p) ==
    [op |-> op, filters |-> f, kernel_size |-> k, strides |-> s, padding |-> p]

\* layers.Conv2D(filters, kernel_size, strides, padding)(t)
Conv2D(t, f, kernel_size, strides, padding) ==
    IF ~Ok(t) THEN t
    ELSE IF f < 0 \/ (f = 0 /\ tf.filters_checked) THEN Raise(t, "ValueError")
    ELSE IF padding = "valid" /\ (kernel_size[1] > t.h \/ kernel_size[2] > t.w)
         THEN Raise(t, "ValueError")
    ELSE [t EXCEPT !.h = ConvDim(t.h, kernel_size[1], strides[1], padding),
                   !.w = ConvDim(t.w, kernel_size[2], strides[2], padding),
                   !.c = f,
                   !.hist = Append(@, LayerOf("Conv2D", f, kernel_size, strides, padding))]

\* layers.Conv2DTranspose(filters, kernel_size, strides, padding)(t)
Conv2DTranspose(t, f, kernel_size, strides, padding) ==
    IF ~Ok(t) THEN t
    ELSE IF f < 0 \/ (f = 0 /\ tf.filters_checked) THEN Raise(t, "ValueError")
    ELSE [t EXCEPT !.h = DeconvDim(t.h, kernel_size[1], strides[1], padding),
                   !.w = DeconvDim(t.w, kernel_size[2], strides[2], padding),
                   !.c = f,
                   !.hist = Append(@, LayerOf("Conv2DTranspose", f, kernel_size,
                                              strides, padding))]

\* layers.MaxPooling2D(pool_size, strides)(t), padding "valid" by default.
MaxPooling2D(t, pool_size, strides) ==
    IF ~Ok(t) THEN t
    ELSE IF pool_size[1] > t.h \/ pool_size[2] > t.w THEN Raise(t, "ValueError")
    ELSE [t EXCEPT !.h = ConvDim(t.h, pool_size[1], strides[1], "valid"),
                   !.w = ConvDim(t.w, pool_size[2], strides[2], "valid"),
                   !.hist = Append(@, LayerOf("MaxPooling2D", t.c, pool_size,
                                              strides, "valid"))]

\* tfa.layers.InstanceNormalization()(t): the shape is kept.
InstanceNormalization(t) ==
    IF ~Ok(t) THEN t
    ELSE [t EXCEPT !.hist = Append(@, LayerOf("InstanceNormalization", t.c,
                                              <<0, 0>>, <<0, 0>>, "none"))]

\* activation(t) for layers.Activation("relu"), layers.Activation("tanh"),
\* layers.LeakyReLU(0.2): the shape is kept.
Activation(t, act) ==
    IF ~Ok(t) THEN t
    ELSE [t EXCEPT !.hist = Append(@, LayerOf(act, t.c, <<0, 0>>, <<0, 0>>, "none"))]

\* One dimension of an element-wise merge: equal sizes, or one of them 1
\* (broadcast); -2 when the sizes cannot be merged.
ElemwiseDim(i, j) ==
    IF i = NoneDim \/ j = NoneDim THEN NoneDim
    ELSE IF i = 1 THEN j
    ELSE IF j = 1 THEN i
    ELSE IF i = j THEN i
    ELSE -2

\* layers.add([a, b]): the history continues the branch b.
Add(a, b) ==
    LET m == <<ElemwiseDim(a.b, b.b), ElemwiseDim(a.h, b.h),
               ElemwiseDim(a.w, b.w), ElemwiseDim(a.c, b.c)>>
    IN  IF ~Ok(a) THEN a
        ELSE IF ~Ok(b) THEN b
        ELSE IF \E d \in 1..4 : m[d] = -2 THEN Raise(b, "ValueError")
        ELSE [b EXCEPT !.b = m[1], !.h = m[2], !.w = m[3], !.c = m[4],
                       !.hist = Append(@, LayerOf("Add", m[4], <<0, 0>>, <<0, 0>>, "none"))]

-----------------------------------------------------------------------------
(* class ReflectionPadding2D *)

\* ReflectionPadding2D.__init__(padding): no weight is created.
ReflectionPadding2D_init(padding) ==
    [padding |-> padding, trainable_weights |-> <<>>, constructed |-> TRUE]

\* ReflectionPadding2D.call with the padding read as (height, width).
ReflectionPadding2D_call_swapped(layer, input_tensor) ==
    LET padding_height == layer.padding[1]
        padding_width == layer.padding[2]
        padding_tensor == << <<0, 0>>,
                             <<padding_height, padding_height>>,
                             <<padding_width, padding_width>>,
                             <<0, 0>> >>
    IN  tf_pad(input_tensor, padding_tensor, "REFLECT")

\* ReflectionPadding2D.call(input_tensor): padding is (width, height).
ReflectionPadding2D_call(layer, input_tensor) ==
    LET padding_width == layer.padding[1]
        padding_height == layer.padding[2]
        padding_tensor == << <<0, 0>>,
                             <<padding_height, padding_height>>,
                             <<padding_width, padding_width>>,
                             <<0, 0>> >>
    IN  tf_pad(input_tensor, padding_tensor, "REFLECT")

\* ReflectionPadding2D(padding=...)(t) inside a builder: construct, then call.
ReflectionPadding2D(t, padding) ==
    LET out == ReflectionPadding2D_call(ReflectionPadding2D_init(padding), t)
    IN  IF ~Ok(out) THEN out
        ELSE [out EXCEPT !.hist = Append(@, LayerOf("ReflectionPadding2D", out.c,
                                                    <<0, 0>>, <<0, 0>>, "reflect"))]

-----------------------------------------------------------------------------
(* The block builders. *)

\* residual_block without the second reflection padding.
residual_block_one_pad(t, activation, kernel_size, strides, padding) ==
    LET dim == t.c
        input_tensor == t
        x1 == ReflectionPadding2D(input_tensor, <<1, 1>>)
        x2 == Conv2D(x1, dim, kernel_size, strides, padding)
        x3 == InstanceNormalization(x2)
        x4 == Activation(x3, activation)
        x6 == Conv2D(x4, dim, kernel_size, strides, padding)
        x7 == InstanceNormalization(x6)
    IN  Add(input_tensor, x7)

\* residual_block(x, activation, kernel_size, strides, padding)
residual_block(t, activation, kernel_size, strides, padding) ==
    LET dim == t.c
        input_tensor == t
        x1 == ReflectionPadding2D(input_tensor, <<1, 1>>)
        x2 == Conv2D(x1, dim, kernel_size, strides, padding)
        x3 == InstanceNormalization(x2)
        x4 == Activation(x3, activation)
        x5 == ReflectionPadding2D(x4, <<1, 1>>)
        x6 == Conv2D(x5, dim, kernel_size, strides, padding)
        x7 == InstanceNormalization(x6)
    IN  Add(input_tensor, x7)

\* downsample(x, filters, activation, kernel_size, strides, padding)
downsample(t, f, activation, kernel_size, strides, padding) ==
    LET x1 == Conv2D(t, f, kernel_size, strides, padding)
        x2 == InstanceNormalization(x1)
    IN  IF activation # "None" THEN Activation(x2, activation) ELSE x2

\* upsample built on Conv2D instead of Conv2DTranspose.
upsample_conv2d(t, f, activation, kernel_size, strides, padding) ==
    LET x1 == Conv2D(t, f, kernel_size, strides, padding)
        x2 == InstanceNormalization(x1)
    IN  IF activation # "None" THEN Activation(x2, activation) ELSE x2

\* upsample(x, filters, activation, kernel_size, strides, padding)
upsample(t, f, activation, kernel_size, strides, padding) ==
    LET x1 == Conv2DTranspose(t, f, kernel_size, strides, padding)
        x2 == InstanceNormalization(x1)
    IN  IF activation # "None" THEN Activation(x2, activation) ELSE x2

-----------------------------------------------------------------------------
(* Inputs. *)

Frameworks == [pad_checked : BOOLEAN, filters_checked : BOOLEAN]

Batches == {NoneDim} \cup (1..MaxBatch)

Tensors == {Tensor(b, h, w, c) : b \in Batches, h \in 1..MaxDim, w \in 1..MaxDim,
                                 c \in 1..MaxChan}

Paddings == (0..MaxPad) \X (0..MaxPad)

KernelSizes == (1..MaxKernel) \X (1..MaxKernel)

StridesSet == {<<s, s>> : s \in 1..MaxStride}

-----------------------------------------------------------------------------
(* Calls of one function each. *)

InitCommon ==
    /\ pc = "start"
    /\ tf \in Frameworks
    /\ x = NoTensor
    /\ filters = 0
    /\ blk = 0
    /\ model = NoModel

\* A constructed ReflectionPadding2D layer, about to be called on a tensor.
InitReflectionPadding2D ==
    /\ fn = "ReflectionPadding2D"
    /\ \E p \in Paddings, t \in Tensors :
           /\ args = [padding |-> p, input_tensor |-> t]
           /\ self = ReflectionPadding2D_init(p)
    /\ InitCommon

\* layer(input_tensor)
CallReflectionPadding2D ==
    /\ fn = "ReflectionPadding2D" /\ pc = "start"
    /\ x' = ReflectionPadding2D_call(self, args.input_tensor)
    /\ pc' = IF Ok(x') THEN "done" ELSE "raised"
    /\ UNCHANGED <<fn, args, tf, self, filters, blk, model>>

InitResidualBlock ==
    /\ fn = "residual_block"
    /\ \E t \in Tensors, k \in KernelSizes, s \in StridesSet, p \in {"valid", "same"} :
           args = [x |-> t, activation |-> "relu", kernel_size |-> k,
                   strides |-> s, padding |-> p]
    /\ self = NoLayer
    /\ InitCommon

\* residual_block(x, activation, kernel_size, strides, padding)
CallResidualBlock ==
    /\ fn = "residual_block" /\ pc = "start"
    /\ x' = residual_block(args.x, args.activation, args.kernel_size,
                           args.strides, args.padding)
    /\ pc' = IF Ok(x') THEN "done" ELSE "raised"
    /\ UNCHANGED <<fn, args, tf, self, filters, blk, model>>

-----------------------------------------------------------------------------
(* downsample followed by upsample with the same filters, default kernel    *)
(* size, strides and padding.                                               *)

DefaultKernelSize == <<3, 3>>

DefaultStrides == <<2, 2>>

DefaultFilters == 64

Filters == (1..MaxFilters) \cup {DefaultFilters}

InitDownsample ==
    /\ fn = "downsample"
    /\ \E t \in Tensors, f \in Filters, a \in {"None", "relu"} :
           args = [x |-> t, filters |-> f, activation |-> a]
    /\ self = NoLayer
    /\ InitCommon

\* x = downsample(x, filters, activation)
CallDownsample ==
    /\ fn = "downsample" /\ pc = "start"
    /\ x' = downsample(args.x, args.filters, args.activation,
                       DefaultKernelSize, DefaultStrides, "same")
    /\ pc' = IF Ok(x') THEN "downsampled" ELSE "raised"
    /\ UNCHANGED <<fn, args, tf, self, filters, blk, model>>

\* x = upsample(x, filters, activation)
CallUpsample ==
    /\ fn = "downsample" /\ pc = "downsampled"
    /\ x' = upsample(x, args.filters, args.activation,
                     DefaultKernelSize, DefaultStrides, "same")
    /\ pc' = IF Ok(x') THEN "done" ELSE "raised"
    /\ UNCHANGED <<fn, args, tf, self, filters, blk, model>>

-----------------------------------------------------------------------------
(* get_resnet_generator *)

ImageSize == 256

ImageChannels == 3

Names == {PyNone, PyStr("cyclegan")}

\* keras.models.Model(inputs, outputs, name=name)
Model(inputs, outputs, name) ==
    [built |-> TRUE, input |-> Shape(inputs), output |-> Shape(outputs),
     layers |-> outputs.hist, name |-> name]

InitResnetGenerator ==
    /\ fn = "get_resnet_generator"
    /\ \E f \in Filters, n \in 0..MaxBlocks, m \in 0..MaxResidual, k \in 0..MaxBlocks :
           args = [filters |-> f, num_downsampling_blocks |-> n,
                   num_residual_blocks |-> m, num_upsample_blocks |-> k,
                   name |-> PyNone]
    /\ self = NoLayer
    /\ InitCommon

\* The loop the generator enters next: the first of the three for-loops, from
\* loop number `from` on, whose range is not empty; the final block otherwise.
GenLoop(from, a) ==
    IF from <= 1 /\ a.num_downsampling_blocks > 0 THEN "downsampling"
    ELSE IF from <= 2 /\ a.num_residual_blocks > 0 THEN "residual"
    ELSE IF from <= 3 /\ a.num_upsample_blocks > 0 THEN "upsampling"
    ELSE "final"

\* inputs ... x = layers.Activation("relu")(x)
GenStemOutput(f) ==
    LET inputs == Input(ImageSize, ImageSize, ImageChannels, "")
        x1 == ReflectionPadding2D(inputs, <<3, 3>>)
        x2 == Conv2D(x1, f, <<7, 7>>, <<1, 1>>, "valid")
        x3 == InstanceNormalization(x2)
    IN  Activation(x3, "relu")

GenStem ==
    /\ fn = "get_resnet_generator" /\ pc = "start"
    /\ x' = GenStemOutput(args.filters)
    /\ filters' = args.filters
    /\ blk' = 0
    /\ pc' = IF Ok(x') THEN GenLoop(1, args) ELSE "raised"
    /\ UNCHANGED <<fn, args, tf, self, model>>

\* filters += 2
GenDownFilters_plus(f) == f + 2

\* filters *= 2
GenDownFilters(f) == f * 2

\* One iteration of: for _ in range(num_downsampling_blocks)
GenDownsample ==
    /\ fn = "get_resnet_generator" /\ pc = "downsampling"
    /\ filters' = GenDownFilters(filters)
    /\ x' = downsample(x, filters', "relu", DefaultKernelSize, DefaultStrides, "same")
    /\ IF ~Ok(x') THEN pc' = "raised" /\ blk' = blk
       ELSE IF blk + 1 < args.num_downsampling_blocks
            THEN pc' = "downsampling" /\ blk' = blk + 1
       ELSE pc' = GenLoop(2, args) /\ blk' = 0
    /\ UNCHANGED <<fn, args, tf, self, model>>

\* One iteration of: for _ in range(num_residual_blocks)
GenResidual ==
    /\ fn = "get_resnet_generator" /\ pc = "residual"
    /\ x' = residual_block(x, "relu", DefaultKernelSize, <<1, 1>>, "valid")
    /\ IF ~Ok(x') THEN pc' = "raised" /\ blk' = blk
       ELSE IF blk + 1 < args.num_residual_blocks
            THEN pc' = "residual" /\ blk' = blk + 1
       ELSE pc' = GenLoop(3, args) /\ blk' = 0
    /\ UNCHANGED <<fn, args, tf, self, filters, model>>

\* filters //= 2
GenUpFilters(f) == f \div 2

\* One iteration of: for _ in range(num_upsample_blocks)
GenUpsample ==
    /\ fn = "get_resnet_generator" /\ pc = "upsampling"
    /\ filters' = GenUpFilters(filters)
    /\ x' = upsample(x, filters', "relu", DefaultKernelSize, DefaultStrides, "same")
    /\ IF ~Ok(x') THEN pc' = "raised" /\ blk' = blk
       ELSE IF blk + 1 < args.num_upsample_blocks
            THEN pc' = "upsampling" /\ blk' = blk + 1
       ELSE pc' = "final" /\ blk' = 0
    /\ UNCHANGED <<fn, args, tf, self, model>>

\* The final block with ReflectionPadding2D()'s default padding (1, 1).
GenFinalOutput_default_pad(t) ==
    LET x1 == ReflectionPadding2D(t, <<1, 1>>)
        x2 == Conv2D(x1, 3, <<7, 7>>, <<1, 1>>, "valid")
    IN  Activation(x2, "tanh")

\* The final block: pad, 7x7 convolution to 3 channels, tanh.
GenFinalOutput(t) ==
    LET x1 == ReflectionPadding2D(t, <<3, 3>>)
        x2 == Conv2D(x1, 3, <<7, 7>>, <<1, 1>>, "valid")
    IN  Activation(x2, "tanh")

\* ... model = keras.models.Model(inputs, x, name=name); return model
GenFinal ==
    /\ fn = "get_resnet_generator" /\ pc = "final"
    /\ x' = GenFinalOutput(x)
    /\ IF Ok(x')
       THEN /\ model' = Model(Input(ImageSize, ImageSize, ImageChannels, ""), x', args.name)
            /\ pc' = "done"
       ELSE /\ model' = model
            /\ pc' = "raised"
    /\ UNCHANGED <<fn, args, tf, self, filters, blk>>

-----------------------------------------------------------------------------
(* efficientnet_generator *)

\* The four decoder stages: the filters and the kernel_size = strides of each
\* Conv2DTranspose.
DecoderStages ==
    << [filters |-> 640, kernel |-> 2],
       [filters |-> 160, kernel |-> 4],
       [filters |-> 40, kernel |-> 2],
       [filters |-> 3, kernel |-> 2] >>

\* The output of model.layers[-36] of efn.EfficientNetB3 on a 256x256x3 input.
\* The backbone is a library's: its spatial size and channel count are inputs.
InitEfficientnetGenerator ==
    /\ fn = "efficientnet_generator"
    /\ \E h \in 1..MaxBackbone, c \in 1..MaxChan :
           args = [backbone |-> [Input(ImageSize, ImageSize, ImageChannels, "")
                                    EXCEPT !.h = h, !.w = h, !.c = c]]
    /\ self = NoLayer
    /\ InitCommon

\* model = efn.EfficientNetB3(...); model.layers[-36].output
EffBackbone ==
    /\ fn = "efficientnet_generator" /\ pc = "start"
    /\ x' = args.backbone
    /\ blk' = 0
    /\ pc' = "decoder"
    /\ UNCHANGED <<fn, args, tf, self, filters, model>>

\* A decoder stage whose MaxPooling2D has no strides argument: the strides
\* default to the pool size.
DecoderStage_pool_strides(t, st) ==
    LET x1 == Conv2DTranspose(t, st.filters, <<st.kernel, st.kernel>>,
                              <<st.kernel, st.kernel>>, "valid")
        x2 == MaxPooling2D(x1, <<2, 2>>, <<2, 2>>)
    IN  InstanceNormalization(x2)

\* Conv2DTranspose, MaxPooling2D(pool_size=(2, 2), strides=(1, 1)),
\* InstanceNormalization.
DecoderStage(t, st) ==
    LET x1 == Conv2DTranspose(t, st.filters, <<st.kernel, st.kernel>>,
                              <<st.kernel, st.kernel>>, "valid")
        x2 == MaxPooling2D(x1, <<2, 2>>, <<1, 1>>)
    IN  InstanceNormalization(x2)

\* One of the four decoder stages, in order.
EffStage ==
    /\ fn = "efficientnet_generator" /\ pc = "decoder"
    /\ x' = DecoderStage(x, DecoderStages[blk + 1])
    /\ IF ~Ok(x') THEN pc' = "raised" /\ blk' = blk
       ELSE IF blk + 1 < Len(DecoderStages) THEN pc' = "decoder" /\ blk' = blk + 1
       ELSE pc' = "model" /\ blk' = blk + 1
    /\ UNCHANGED <<fn, args, tf, self, filters, model>>

\* model = Model(inputs=model.inputs, outputs=x); return model
EffReturn ==
    /\ fn = "efficientnet_generator" /\ pc = "model"
    /\ model' = Model(Input(ImageSize, ImageSize, ImageChannels, ""), x, PyNone)
    /\ pc' = "done"
    /\ UNCHANGED <<fn, args, tf, self, x, filters, blk>>

-----------------------------------------------------------------------------
(* get_discriminator *)

DefaultNumDownsampling == 3

InitDiscriminator ==
    /\ fn = "get_discriminator"
    /\ \E f \in Filters, n \in 0..MaxNumDownsampling, nm \in Names :
           args = [filters |-> f, num_downsampling |-> n, name |-> nm]
    /\ self = NoLayer
    /\ InitCommon

\* img_input = tf.keras.layers.Input(shape=[256,256,3], name=name + "_img_input")
DiscInput ==
    /\ fn = "get_discriminator" /\ pc = "start"
    /\ LET input_name == PyAdd(args.name, "_img_input")
       IN  IF input_name.type = "TypeError"
           THEN /\ x' = Raise(NoTensor, "TypeError")
                /\ pc' = "raised"
           ELSE /\ x' = Input(ImageSize, ImageSize, ImageChannels, input_name.value)
                /\ pc' = "stem"
    /\ UNCHANGED <<fn, args, tf, self, filters, blk, model>>

\* x = layers.Conv2D(filters, (4, 4), strides=(2, 2), padding="same")(img_input)
\* x = layers.LeakyReLU(0.2)(x)
DiscStemOutput(img_input, f) ==
    Activation(Conv2D(img_input, f, <<4, 4>>, <<2, 2>>, "same"), "LeakyReLU")

\* ... num_filters = filters
DiscStem ==
    /\ fn = "get_discriminator" /\ pc = "stem"
    /\ x' = DiscStemOutput(x, args.filters)
    /\ filters' = args.filters
    /\ blk' = 0
    /\ pc' = IF Ok(x') THEN "downsampling" ELSE "raised"
    /\ UNCHANGED <<fn, args, tf, self, model>>

\* for num_downsample_block in range(num_downsampling)
DiscBlocks_arg(num_downsampling) == num_downsampling

\* The number of iterations of: for num_downsample_block in range(3)
DiscBlocks(num_downsampling) == 3

\* The stride-1 stage starting one iteration late.
DiscStrides_late(num_downsample_block) ==
    IF num_downsample_block <= 2 THEN <<2, 2>> ELSE <<1, 1>>

\* The strides of the downsample of iteration num_downsample_block.
DiscStrides(num_downsample_block) ==
    IF num_downsample_block < 2 THEN <<2, 2>> ELSE <<1, 1>>

\* num_filters *= 2
DiscNumFilters(num_filters) == num_filters * 2

\* One iteration of: for num_downsample_block in range(3)
DiscDownsample ==
    /\ fn = "get_discriminator" /\ pc = "downsampling"
    /\ blk < DiscBlocks(args.num_downsampling)
    /\ filters' = DiscNumFilters(filters)
    /\ x' = downsample(x, filters', "LeakyReLU", <<4, 4>>, DiscStrides(blk), "same")
    /\ blk' = blk + 1
    /\ pc' = IF Ok(x') THEN "downsampling" ELSE "raised"
    /\ UNCHANGED <<fn, args, tf, self, model>>

\* x = layers.Conv2D(1, (4, 4), strides=(1, 1), padding="same")(x)
DiscFinalOutput(t) == Conv2D(t, 1, <<4, 4>>, <<1, 1>>, "same")

\* ... model = keras.models.Model(inputs=img_input, outputs=x, name=name)
DiscFinal ==
    /\ fn = "get_discriminator" /\ pc = "downsampling"
    /\ blk >= DiscBlocks(args.num_downsampling)
    /\ x' = DiscFinalOutput(x)
    /\ IF Ok(x')
       THEN /\ model' = Model(Input(ImageSize, ImageSize, ImageChannels, x.hist[1].name),
                              x', args.name)
            /\ pc' = "done"
       ELSE /\ model' = model
            /\ pc' = "raised"
    /\ UNCHANGED <<fn, args, tf, self, filters, blk>>

-----------------------------------------------------------------------------

Init ==
    \/ InitReflectionPadding2D
    \/ InitResidualBlock
    \/ InitDownsample
    \/ InitResnetGenerator
    \/ InitEfficientnetGenerator
    \/ InitDiscriminator

Next ==
    \/ CallReflectionPadding2D
    \/ CallResidualBlock
    \/ CallDownsample
    \/ CallUpsample
    \/ GenStem
    \/ GenDownsample
    \/ GenResidual
    \/ GenUpsample
    \/ GenFinal
    \/ EffBackbone
    \/ EffStage
    \/ EffReturn
    \/ DiscInput
    \/ DiscStem
    \/ DiscDownsample
    \/ DiscFinal

Spec == Init /\ [][Next]_vars

-----------------------------------------------------------------------------
(* Helpers of the properties. *)

LastLayer(layers) == layers[Len(layers)]

IsConv(l) == l.op = "Conv2D"

ImageShape == <<NoneDim, ImageSize, ImageSize, ImageChannels>>

Returned == pc = "done"

-----------------------------------------------------------------------------
(* Properties. *)

\* C1, as stated: every get_resnet_generator call that returns, returns a
\* model whose output shape is its input shape (256,256,3), whatever N, M, K.
C1_OutputEqualsInputAnyNK ==
    (fn = "get_resnet_generator" /\ Returned) =>
        /\ model.input = ImageShape
        /\ model.output = model.input

\* C1, amended: the output of the model get_resnet_generator returns is
\* 2^K * ceil(256 / 2^N) square with 3 channels; it is the input shape
\* (256,256,3) when N = K <= 8, and with N = K <= 7 the call always returns.
C1_OutputEqualsInputWhenNEqualsK ==
    fn = "get_resnet_generator" =>
        LET n == args.num_downsampling_blocks
            k == args.num_upsample_blocks
            size == Pow2(k) * CeilDiv(ImageSize, Pow2(n))
        IN  /\ Returned =>
                /\ model.input = ImageShape
                /\ model.output = <<NoneDim, size, size, 3>>
                /\ (n = k /\ n <= 8) => model.output = model.input
            /\ (n = k /\ n <= 7) => pc # "raised"

C1_Witness ==
    /\ fn = "get_resnet_generator" /\ Returned
    /\ args.num_downsampling_blocks = 2 /\ args.num_upsample_blocks = 2
    /\ args.num_residual_blocks = 5
    /\ model.output = ImageShape

\* The arguments every builder takes when called with none.
DefaultCall ==
    \/ /\ fn = "get_resnet_generator"
       /\ args = [filters |-> DefaultFilters, num_downsampling_blocks |-> 2,
                  num_residual_blocks |-> 5, num_upsample_blocks |-> 2,
                  name |-> PyNone]
    \/ fn = "efficientnet_generator"
    \/ /\ fn = "get_discriminator"
       /\ args = [filters |-> DefaultFilters,
                  num_downsampling |-> DefaultNumDownsampling, name |-> PyNone]

\* C2: no builder called with its default arguments raises.
C2_DefaultsDoNotRaise == DefaultCall => pc # "raised"

\* C3: the model efficientnet_generator returns has input shape (256,256,3)
\* and output shape (256,256,3).
C3_EfficientnetOutputIsImage ==
    (fn = "efficientnet_generator" /\ Returned) =>
        /\ model.input = ImageShape
        /\ model.output = ImageShape

\* C4, as stated: residual_block returns, for any kernel_size, strides and
\* padding, a tensor of its input's shape.
C4_ResidualShapeAnyKernel ==
    (fn = "residual_block" /\ pc # "start") =>
        /\ Returned
        /\ Shape(x) = Shape(args.x)

\* C4, amended: with kernel_size (3,3), strides (1,1) and padding "valid"
\* residual_block, when it returns, returns a tensor of its input's shape, and
\* it returns whenever the input's height and width are at least 2.
C4_ResidualShapeDefaultKernel ==
    (/\ fn = "residual_block" /\ pc # "start"
     /\ args.kernel_size = <<3, 3>> /\ args.strides = <<1, 1>>
     /\ args.padding = "valid") =>
        /\ Returned => Shape(x) = Shape(args.x)
        /\ (args.x.h >= 2 /\ args.x.w >= 2) => Returned

C4_Witness ==
    /\ fn = "residual_block" /\ Returned
    /\ args.kernel_size = <<3, 3>> /\ args.strides = <<1, 1>>
    /\ args.padding = "valid"
    /\ args.x.h = 4 /\ args.x.w = 5
    /\ Len(x.hist) = 8

\* C5, as stated: downsample then upsample, with the default strides and
\* padding, returns a tensor of the input's height and width, odd ones included.
C5_RoundTripAnySize ==
    (fn = "downsample" /\ Returned) =>
        /\ x.h = args.x.h
        /\ x.w = args.x.w

\* C5, amended: downsample then upsample returns height 2 * ceil(h / 2) and
\* width 2 * ceil(w / 2): the input's for even h and w, one more for odd ones.
C5_RoundTripEvenSize ==
    (fn = "downsample" /\ pc # "start") =>
        /\ pc # "raised"
        /\ pc = "downsampled" =>
               /\ x.h = CeilDiv(args.x.h, 2) /\ x.w = CeilDiv(args.x.w, 2)
               /\ x.c = args.filters
        /\ Returned =>
               /\ x.h = IF args.x.h % 2 = 0 THEN args.x.h ELSE args.x.h + 1
               /\ x.w = IF args.x.w % 2 = 0 THEN args.x.w ELSE args.x.w + 1
               /\ x.c = args.filters

C5_Witness ==
    /\ fn = "downsample" /\ Returned
    /\ args.x.h = 4 /\ args.x.w = 2
    /\ x.h = 4 /\ x.w = 2

\* The channel count get_resnet_generator has at a position: filters * 2^i
\* after i downsamplings, filters * 2^N through the residual blocks,
\* filters * 2^N // 2^j after j upsamplings.
GenChannels ==
    LET f == args.filters
        n == args.num_downsampling_blocks
        k == args.num_upsample_blocks
    IN  CASE pc = "downsampling" -> f * Pow2(blk)
          [] pc = "residual" -> f * Pow2(n)
          [] pc = "upsampling" -> (f * Pow2(n)) \div Pow2(blk)
          [] pc = "final" -> (f * Pow2(n)) \div Pow2(k)
          [] OTHER -> 3

GenRunning == pc \in {"downsampling", "residual", "upsampling", "final"}

\* The channel counts of C7 without the claim of positivity.
GenChannelsFollowStages ==
    /\ GenRunning => (x.c = GenChannels /\ filters = x.c)
    /\ Returned =>
           /\ x.c = 3
           /\ LastLayer(model.layers).op = "tanh"
           /\ model.layers[Len(model.layers) - 1] =
                  LayerOf("Conv2D", 3, <<7, 7>>, <<1, 1>>, "valid")

\* C7, as stated: the channel count is filters, doubles at each downsampling,
\* is fixed through the residual blocks, halves at each upsampling and is a
\* positive integer at every step; the last convolution sets it to 3, then tanh.
C7_ChannelsAlwaysPositive ==
    (fn = "get_resnet_generator" /\ pc # "start") =>
        /\ GenChannelsFollowStages
        /\ filters > 0

\* C7, amended: the same channel counts, positive after j upsamplings exactly
\* when 2^j <= filters * 2^N (so for every K <= N); past that the count is 0.
C7_ChannelsPositiveWhileDivisible ==
    (fn = "get_resnet_generator" /\ pc # "start") =>
        /\ GenChannelsFollowStages
        /\ filters >= 0
        /\ pc = "upsampling" =>
               (filters > 0 <=> Pow2(blk) <= args.filters * Pow2(args.num_downsampling_blocks))
        /\ pc \in {"downsampling", "residual"} => filters > 0
        /\ args.num_upsample_blocks <= args.num_downsampling_blocks => filters > 0

C7_Witness ==
    /\ fn = "get_resnet_generator" /\ pc = "upsampling"
    /\ args.filters = 2 /\ args.num_downsampling_blocks = 3
    /\ args.num_residual_blocks = 1
    /\ blk = 2 /\ x.c = 4

\* C6: for filters >= 1 and a str name get_discriminator returns a model of
\* input (256,256,3) and output (H',W',1), H' < 256, W' < 256: a 4x4 stride-2
\* convolution, three downsample stages of strides 2, 2, 1 and channels
\* 2, 4, 8 times filters, and a last 4x4 stride-1 "same" convolution to 1
\* channel that no activation follows.
C6_DiscriminatorPatchMap ==
    (fn = "get_discriminator" /\ args.name.type = "str") =>
        /\ pc # "raised"
        /\ Returned =>
               LET convs == SelectSeq(model.layers, IsConv)
                   f == args.filters
               IN  /\ model.input = ImageShape
                   /\ model.output[1] = NoneDim
                   /\ model.output[2] < ImageSize /\ model.output[2] >= 1
                   /\ model.output[3] < ImageSize /\ model.output[3] >= 1
                   /\ model.output[4] = 1
                   /\ Len(convs) = 5
                   /\ \A j \in 1..5 : convs[j].kernel_size = <<4, 4>>
                                      /\ convs[j].padding = "same"
                   /\ <<convs[1].strides, convs[2].strides, convs[3].strides,
                        convs[4].strides, convs[5].strides>>
                          = << <<2, 2>>, <<2, 2>>, <<2, 2>>, <<1, 1>>, <<1, 1>> >>
                   /\ <<convs[1].filters, convs[2].filters, convs[3].filters,
                        convs[4].filters, convs[5].filters>>
                          = <<f, 2 * f, 4 * f, 8 * f, 1>>
                   /\ LastLayer(model.layers) = convs[5]

C6_Witness ==
    /\ fn = "get_discriminator" /\ Returned
    /\ args.name = PyStr("cyclegan")
    /\ args.filters = DefaultFilters
    /\ model.output[4] = 1

\* C8: every decoder stage of efficientnet_generator takes spatial size h to
\* s * h - 1 (s = 2, 4, 2, 2), strictly larger than h when h >= 2; the channel
\* counts after the stages are 640, 160, 40, 3; the last layer of the model is
\* the last stage's instance normalization.
C8_DecoderStagesGrow ==
    [][ (fn = "efficientnet_generator" /\ pc = "decoder") =>
            LET s == <<2, 4, 2, 2>>[blk + 1]
                ch == <<640, 160, 40, 3>>[blk + 1]
            IN  /\ pc' # "raised"
                /\ x'.h = s * x.h - 1 /\ x'.w = s * x.w - 1
                /\ x.h >= 2 => (x'.h > x.h /\ x'.w > x.w)
                /\ x'.c = ch
                /\ blk >= 1 => x'.c < x.c
                /\ LastLayer(x'.hist).op = "InstanceNormalization"
                /\ pc' = "model" <=> (blk' = 4 /\ x'.c = 3) ]_vars

C8_Witness ==
    /\ fn = "efficientnet_generator" /\ Returned
    /\ args.backbone.h = 8
    /\ model.output = <<NoneDim, 233, 233, 3>>

\* C9: a ReflectionPadding2D call that returns, returns height + 2 *
\* padding_height and width + 2 * padding_width for padding = (padding_width,
\* padding_height), batch and channels unchanged; the layer has no trainable
\* weight and the call leaves its padding as constructed.
C9_ReflectionPaddingShape ==
    (fn = "ReflectionPadding2D" /\ pc # "start") =>
        /\ self.padding = args.padding
        /\ self.trainable_weights = <<>>
        /\ Returned =>
               /\ x.h = args.input_tensor.h + 2 * args.padding[2]
               /\ x.w = args.input_tensor.w + 2 * args.padding[1]
               /\ x.b = args.input_tensor.b
               /\ x.c = args.input_tensor.c

C9_Witness ==
    /\ fn = "ReflectionPadding2D" /\ Returned
    /\ args.padding = <<1, 2>>
    /\ args.input_tensor.h = 3 /\ args.input_tensor.w = 4
    /\ x.h = 7 /\ x.w = 6

\* The layers of the discriminator for filters f and input name nm.
DiscLayers(f, nm) ==
    << [op |-> "InputLayer", filters |-> 3, kernel_size |-> <<0, 0>>,
        strides |-> <<0, 0>>, padding |-> "none", name |-> nm],
       LayerOf("Conv2D", f, <<4, 4>>, <<2, 2>>, "same"),
       LayerOf("LeakyReLU", f, <<0, 0>>, <<0, 0>>, "none"),
       LayerOf("Conv2D", 2 * f, <<4, 4>>, <<2, 2>>, "same"),
       LayerOf("InstanceNormalization", 2 * f, <<0, 0>>, <<0, 0>>, "none"),
       LayerOf("LeakyReLU", 2 * f, <<0, 0>>, <<0, 0>>, "none"),
       LayerOf("Conv2D", 4 * f, <<4, 4>>, <<2, 2>>, "same"),
       LayerOf("InstanceNormalization", 4 * f, <<0, 0>>, <<0, 0>>, "none"),
       LayerOf("LeakyReLU", 4 * f, <<0, 0>>, <<0, 0>>, "none"),
       LayerOf("Conv2D", 8 * f, <<4, 4>>, <<1, 1>>, "same"),
       LayerOf("InstanceNormalization", 8 * f, <<0, 0>>, <<0, 0>>, "none"),
       LayerOf("LeakyReLU", 8 * f, <<0, 0>>, <<0, 0>>, "none"),
       LayerOf("Conv2D", 1, <<4, 4>>, <<1, 1>>, "same") >>

\* C10: whatever num_downsampling is, the model get_discriminator returns has
\* the layer sequence fixed by filters and name alone, with three downsample
\* stages, and output shape (32,32,1).
C10_NumDownsamplingIgnored ==
    (fn = "get_discriminator" /\ Returned) =>
        /\ model.layers = DiscLayers(args.filters, args.name.value \o "_img_input")
        /\ model.output = <<NoneDim, 32, 32, 1>>
        /\ blk = 3

C10_Witness ==
    /\ fn = "get_discriminator" /\ Returned
    /\ args.num_downsampling = 0
    /\ model.output = <<NoneDim, 32, 32, 1>>

=============================================================================
